---- MODULE Spec2Model ----
(***************************************************************************)
(* UniTrackCodeGen: the incremental build engine (FileProcessor), the      *)
(* one-shot and watch-mode drivers of main.rs, and the Zod field renderer. *)
(*                                                                         *)
(* A path is a sequence of components; a component is a sequence of text   *)
(* tokens, so that str::replace(".cs", ...) on a file name is computed and *)
(* not assumed.  The component <<"/">> is the filesystem root: a path that *)
(* starts with it is absolute.                                             *)
(***************************************************************************)
EXTENDS Integers, Sequences, FiniteSets, TLC

VARIABLES
    fs,          \* the filesystem: files (path -> data) and dirs (set of paths)
    processor,   \* the FileProcessor of the initial run / of the engine
    last,        \* outcome of the most recent process_file call
    registered,  \* history: input -> outputs ever registered by any FileProcessor
    calls,       \* number of engine calls and edits made so far (bounded)
    cli,         \* the parsed command line (Cli, Commands)
    config,      \* Config::load().unwrap_or_default(): the configuration file
    mainPc,      \* position of main
    exitCode,    \* process exit status, -1 while running
    todo,        \* directory entries the initial walk has not visited yet
    watcherPc,   \* position of the spawned watch_directory task
    pending,     \* paths the debouncer holds for its next batch
    rawQueue,    \* channel debouncer callback -> watch_directory loop
    eventQueue,  \* channel watch_directory -> main consumer loop
    current,     \* the path main received and is rebuilding (<<>> when none)
    emitted,     \* history: the paths the debouncer sent, in order
    rebuilt,     \* history: the rebuilds main made, in order: [path, result]
    ioFailed,    \* history: the run met an I/O failure
    dto,         \* renderer input: a CSharpDto
    schema,      \* renderer output: the rendered field expressions
    declaration, \* parser input: a record declaration [name, props]
    parsed       \* parser outcome: "no" before the call, then "ok" or "panic"

vars == <<fs, processor, last, registered, calls, cli, config, mainPc, exitCode,
          todo, watcherPc, pending, rawQueue, eventQueue, current, emitted,
          rebuilt, ioFailed, dto, schema, declaration, parsed>>

-----------------------------------------------------------------------------
(* Bounds *)

\* most enum (resp. record) declarations in one source file
MaxDecls == 1

\* most process_file calls plus file edits in one behaviour
MaxCalls == 3

\* most paths the debouncer sends in one behaviour
MaxEvents == 2

-----------------------------------------------------------------------------
(* Paths (std::path) *)

Root == <<"/">>

Put(f, k, v) == [x \in (DOMAIN f) \cup {k} |-> IF x = k THEN v ELSE f[x]]

Range(s) == {s[i] : i \in DOMAIN s}

is_absolute(p) == p # <<>> /\ p[1] = Root

starts_with(p, base) ==
    /\ Len(base) <= Len(p)
    /\ SubSeq(p, 1, Len(base)) = base

\* Path::parent: None (here <<>>) for the root and for the empty path
HasParent(p) == p # <<>> /\ p # <<Root>>

parent(p) == SubSeq(p, 1, Len(p) - 1)

file_name(p) == p[Len(p)]

\* PathBuf::join: an absolute argument replaces the receiver
join(base, p) == IF is_absolute(p) THEN p ELSE base \o p

\* str::replace on a file name: every occurrence of the token is replaced
replace(name, from, to) ==
    [i \in DOMAIN name |-> IF name[i] = from THEN to ELSE name[i]]

\* Path::extension of the last component
extension(p) ==
    LET name == file_name(p)
        t    == name[Len(name)]
    IN  IF p = <<>> \/ Len(name) < 2 THEN "none"
        ELSE CASE t = ".cs"        -> "cs"
               [] t = ".ts"        -> "ts"
               [] t = ".schema.ts" -> "ts"
               [] t = ".txt"       -> "txt"
               [] OTHER            -> "none"

Ancestors(d) == {SubSeq(d, 1, k) : k \in 1..Len(d)}

-----------------------------------------------------------------------------
(* The directory tree the command is run on *)

InDir  == <<Root, <<"in">>>>
SubDir == InDir \o <<<<"sub">>>>
OutDir == <<Root, <<"out">>>>
CfgDir == <<Root, <<"cfg">>>>

FileX == InDir \o <<<<"X", ".cs">>>>
FileY == SubDir \o <<<<"Y", ".cs">>>>
FileZ == InDir \o <<<<"Z", ".txt">>>>

InputFiles == {FileX, FileY, FileZ}

\* the text of a source file, by what the two parsers find in it
Contents ==
    {[kind |-> "cs", enums |-> e, dtos |-> d, decl |-> 0] :
        e \in 0..MaxDecls, d \in 0..MaxDecls}

NoEnum == [kind |-> "cs", enums |-> 0, dtos |-> 1, decl |-> 0]
OneEnum == [kind |-> "cs", enums |-> 1, dtos |-> 0, decl |-> 0]
Both == [kind |-> "cs", enums |-> 1, dtos |-> 1, decl |-> 0]

\* seahash::hash of the bytes: a function of the content, injective on Contents
\* (collisions of the 64-bit hash are outside the model's contents)
seahash(content) == content.enums * (MaxDecls + 2) + content.dtos + 1

-----------------------------------------------------------------------------
(* FileProcessor *)

NoStats ==
    [files_processed |-> 0, enums_generated |-> 0,
     schemas_generated |-> 0, files_skipped |-> 0]

\* FileProcessor::new
NewProcessor ==
    [file_hashes |-> <<>>, file_mapping |-> <<>>, stats |-> NoStats]

\* I/O outcomes of one process_file call: which operation fails, if any
Faults ==
    {"none", "read", "remove_file", "read_to_string", "create_dir_all",
     "write_1", "write_2"}

FailingWrite(fault) ==
    CASE fault = "write_1" -> 1
      [] fault = "write_2" -> 2
      [] OTHER -> 0

\* should_process_file that compares the hash and never records it
should_process_file_NoRecord(p, files, path, fault) ==
    IF fault = "read" \/ path \notin DOMAIN files
    THEN [go |-> FALSE, p |-> p]
    ELSE [go |-> ~(path \in DOMAIN p.file_hashes
                   /\ p.file_hashes[path] = seahash(files[path])),
          p |-> p]

\* should_process_file that drops the recorded hash of a path it cannot read
should_process_file_ForgetUnreadable(p, files, path, fault) ==
    IF fault = "read" \/ path \notin DOMAIN files
    THEN [go |-> FALSE,
          p |-> [p EXCEPT !.file_hashes =
                    [x \in (DOMAIN @) \ {path} |-> @[x]]]]
    ELSE LET hash == seahash(files[path])
         IN  IF path \in DOMAIN p.file_hashes /\ p.file_hashes[path] = hash
             THEN [go |-> FALSE, p |-> p]
             ELSE [go |-> TRUE,
                   p |-> [p EXCEPT !.file_hashes = Put(@, path, hash)]]

\* should_process_file: [go, p]
should_process_file(p, files, path, fault) ==
    IF fault = "read" \/ path \notin DOMAIN files
    THEN [go |-> FALSE, p |-> p]
    ELSE LET hash == seahash(files[path])
         IN  IF path \in DOMAIN p.file_hashes /\ p.file_hashes[path] = hash
             THEN [go |-> FALSE, p |-> p]
             ELSE [go |-> TRUE,
                   p |-> [p EXCEPT !.file_hashes = Put(@, path, hash)]]

register_output(p, input, output) ==
    [p EXCEPT !.file_mapping =
        Put(@, input,
            IF input \in DOMAIN @ THEN Append(@[input], output) ELSE <<output>>)]

get_outputs_for_input(p, input) ==
    IF input \in DOMAIN p.file_mapping THEN p.file_mapping[input] ELSE <<>>

\* cleanup_outputs: [ok, files, removed].  The outputs are visited in order and
\* the first failing remove_file ends the call, so a failure leaves every
\* existing output in place.
cleanup_outputs(p, files, input, fault) ==
    LET outs == Range(get_outputs_for_input(p, input)) \cap DOMAIN files
    IN  IF fault = "remove_file" /\ outs # {}
        THEN [ok |-> FALSE, files |-> files, removed |-> {}]
        ELSE [ok |-> TRUE,
              files |-> [x \in (DOMAIN files) \ outs |-> files[x]],
              removed |-> outs]

get_relative_output_path(input_path, input_root, output_root) ==
    LET relative == IF starts_with(input_path, input_root)
                    THEN SubSeq(input_path, Len(input_root) + 1, Len(input_path))
                    ELSE input_path
    IN  join(output_root, relative)

\* the directory an output of input_path is written to
OutputDirOf(input_path, input_root, output_root) ==
    LET relative_path == get_relative_output_path(input_path, input_root, output_root)
    IN  IF HasParent(relative_path) THEN parent(relative_path) ELSE output_root

EnumSuffix == ".ts"
SchemaSuffix == ".schema.ts"

OutputPathOf(input_path, input_root, output_root, suffix) ==
    join(OutputDirOf(input_path, input_root, output_root),
         <<replace(file_name(input_path), ".cs", suffix)>>)

\* Option<PathBuf>::map_or("default", to_str): the text of the directory, the
\* text "default" being that of the one-component relative path default
DirText(dir) == IF dir = <<>> THEN <<<<"default">>>> ELSE dir

\* generate_file_header, without the timestamp line
generate_file_header(cfg, file_type) ==
    [file_type |-> file_type,
     input_dir |-> DirText(cfg.input_dir),
     output_dir |-> DirText(cfg.output_dir),
     extensions |-> cfg.extensions,
     localization |-> IF cfg.localized THEN "enabled" ELSE "disabled"]

\* Config::load().unwrap_or_default() in CSharpEnum::to_typescript: the
\* configuration file is read again when an enum is rendered
LoadedConfig == config

\* the writes of one rebuild, in order: one per enum, then one per record
WritePlan(input_path, input_root, output_root, cfg, content) ==
    [k \in 1..content.enums |->
        [path |-> OutputPathOf(input_path, input_root, output_root, EnumSuffix),
         data |-> [kind |-> "Enum", enums |-> content.enums,
                   dtos |-> content.dtos, decl |-> k,
                   header |-> generate_file_header(LoadedConfig, "Enum")]]]
    \o
    [k \in 1..content.dtos |->
        [path |-> OutputPathOf(input_path, input_root, output_root, SchemaSuffix),
         data |-> [kind |-> "Zod Schema", enums |-> content.enums,
                   dtos |-> content.dtos, decl |-> k,
                   header |-> generate_file_header(cfg, "Zod Schema")]]]

\* the two loops of process_file over st = [p, fs, written, result]
RECURSIVE Emit(_, _, _, _, _)
Emit(st, input_path, plan, i, fault) ==
    IF i > Len(plan) THEN [st EXCEPT !.result = "ok"]
    ELSE
      LET item == plan[i]
          made == [st EXCEPT !.fs.dirs = @ \cup Ancestors(parent(item.path))]
          done == [made EXCEPT
                     !.fs.files = Put(@, item.path, item.data),
                     !.written = @ \cup {item.path},
                     !.p = LET q == register_output(made.p, input_path, item.path)
                           IN  IF item.data.kind = "Enum"
                               THEN [q EXCEPT !.stats.enums_generated = @ + 1]
                               ELSE [q EXCEPT !.stats.schemas_generated = @ + 1]]
      IN  IF fault = "create_dir_all" /\ i = 1
          THEN [st EXCEPT !.result = "err"]
          ELSE IF FailingWrite(fault) = i
               THEN [made EXCEPT !.result = "err"]
               ELSE Emit(done, input_path, plan, i + 1, fault)

\* process_file: [p, fs, result, written, removed]
process_file(p, disk, input_path, input_root, output_root, cfg, fault) ==
    LET sp == should_process_file(p, disk.files, input_path, fault)
    IN  IF ~sp.go
        THEN [p |-> [sp.p EXCEPT !.stats.files_skipped = @ + 1], fs |-> disk,
              result |-> "skipped", written |-> {}, removed |-> {}]
        ELSE
          LET p1 == [sp.p EXCEPT !.stats.files_processed = @ + 1]
              cl == cleanup_outputs(p1, disk.files, input_path, fault)
              d1 == [disk EXCEPT !.files = cl.files]
          IN  IF ~cl.ok \/ fault = "read_to_string"
              THEN [p |-> p1, fs |-> d1, result |-> "err",
                    written |-> {}, removed |-> cl.removed]
              ELSE
                LET plan == WritePlan(input_path, input_root, output_root, cfg,
                                      disk.files[input_path])
                    out  == Emit([p |-> p1, fs |-> d1, written |-> {},
                                  result |-> "ok"],
                                 input_path, plan, 1, fault)
                IN  [p |-> out.p, fs |-> out.fs, result |-> out.result,
                     written |-> out.written, removed |-> cl.removed]

-----------------------------------------------------------------------------
(* Bookkeeping shared by every caller of process_file *)

NoCall ==
    [input |-> <<>>, fault |-> "none", content |-> NoEnum,
     result |-> "none", written |-> {}, removed |-> {}, prior |-> {},
     mode |-> "none"]

RegisteredFor(reg, input) == IF input \in DOMAIN reg THEN reg[input] ELSE {}

\* the I/O failures a call met: the one that ended it, or the read failure
\* that should_process_file turned into a skip
Met(r, input, fault) ==
    IF r.result = "err" THEN {fault}
    ELSE IF fault = "read" \/ input \notin DOMAIN fs.files THEN {"read"}
    ELSE {}

\* the record of a call that produced r
CallRecord(r, input, fault, mode) ==
    [input |-> input,
     fault |-> IF r.result = "err" THEN "io"
               ELSE IF Met(r, input, fault) = {} THEN "none" ELSE "read",
     content |-> IF input \in DOMAIN fs.files THEN fs.files[input] ELSE NoEnum,
     result |-> r.result, written |-> r.written, removed |-> r.removed,
     prior |-> RegisteredFor(registered, input), mode |-> mode]

Register(reg, input, outputs) ==
    IF outputs = {} THEN reg
    ELSE Put(reg, input, RegisteredFor(reg, input) \cup outputs)

InitialFiles ==
    [x \in InputFiles |-> IF x = FileX THEN Both ELSE OneEnum]

InitialFs == [files |-> InitialFiles, dirs |-> {<<Root>>, InDir, SubDir, OutDir}]

NoCli ==
    [command |-> "none", watch |-> FALSE, input |-> <<>>, output |-> <<>>,
     localized |-> FALSE]

\* Config::default
DefaultConfig ==
    [extensions |-> {"cs"}, ignore |-> {}, input_dir |-> <<>>,
     output_dir |-> <<>>, localized |-> FALSE]

NoDto == [name |-> <<>>, properties |-> <<>>]

DriverIdle ==
    /\ cli = NoCli
    /\ config = DefaultConfig
    /\ mainPc = "none"
    /\ exitCode = -1
    /\ todo = <<>>
    /\ watcherPc = "none"
    /\ pending = {}
    /\ rawQueue = <<>>
    /\ eventQueue = <<>>
    /\ current = <<>>
    /\ emitted = <<>>
    /\ rebuilt = <<>>
    /\ ioFailed = FALSE

NoDecl == [name |-> "", props |-> ""]

RendererIdle ==
    /\ dto = NoDto
    /\ schema = <<>>
    /\ declaration = NoDecl
    /\ parsed = "no"

driverVars == <<cli, config, mainPc, exitCode, todo, watcherPc, pending,
                rawQueue, eventQueue, current, emitted, rebuilt, ioFailed>>

rendererVars == <<dto, schema, declaration, parsed>>

-----------------------------------------------------------------------------
(* The engine alone: one FileProcessor, any sequence of process_file calls   *)
(* and of edits of the input files between them.                             *)

EngineInputs == {FileX, FileY}

EngineInit ==
    /\ fs \in {[InitialFs EXCEPT !.files[FileX] = c] : c \in Contents}
    /\ processor = NewProcessor
    /\ last = NoCall
    /\ registered = <<>>
    /\ calls = 0
    /\ DriverIdle
    /\ RendererIdle

\* a caller invokes process_file on the one processor
EngineProcess(input, fault) ==
    /\ calls < MaxCalls
    /\ LET r == process_file(processor, fs, input, InDir, OutDir, config, fault)
       IN  /\ processor' = r.p
           /\ fs' = r.fs
           /\ last' = CallRecord(r, input, fault, "engine")
           /\ registered' = Register(registered, input, r.written)
    /\ calls' = calls + 1
    /\ UNCHANGED <<driverVars, rendererVars>>

\* the user saves new text into an input file
EngineEdit(input, content) ==
    /\ calls < MaxCalls
    /\ fs.files[input] # content
    /\ fs' = [fs EXCEPT !.files[input] = content]
    /\ calls' = calls + 1
    /\ UNCHANGED <<processor, last, registered, driverVars, rendererVars>>

EngineNext ==
    \/ \E input \in EngineInputs, fault \in Faults : EngineProcess(input, fault)
    \/ \E input \in EngineInputs, content \in Contents : EngineEdit(input, content)

EngineSpec == EngineInit /\ [][EngineNext]_vars

-----------------------------------------------------------------------------
(* Config (config.rs) *)

is_valid_extension(cfg, path) == extension(path) \in cfg.extensions

\* a glob pattern of the ignore list, by the directory whose content it matches
Matches(pattern, path) == starts_with(path, pattern)

should_ignore(cfg, path) == \E pattern \in cfg.ignore : Matches(pattern, path)

Accepted(cfg, path) == is_valid_extension(cfg, path) /\ ~should_ignore(cfg, path)

-----------------------------------------------------------------------------
(* The command: main.rs *)

Commands == {"enums", "schemas"}

\* input.or_else(|| config.input_dir.clone()); <<>> is None
input_dir == IF cli.input # <<>> THEN cli.input ELSE config.input_dir

output_dir == IF cli.output # <<>> THEN cli.output ELSE config.output_dir

\* the Config of the subcommand arm: Schemas sets
\* config.localized = localized || config.localized, Enums clones it
ArmConfig == [config EXCEPT !.localized = cli.localized \/ @]

is_dir(path) == path \in fs.dirs

\* fs::read_dir, recursively: the entries in the order the walk meets them
Listing == <<FileX, FileZ, FileY>>

RECURSIVE Under(_, _)
Under(dir, entries) ==
    IF entries = <<>> THEN <<>>
    ELSE (IF Head(entries) \in DOMAIN fs.files /\ starts_with(Head(entries), dir)
          THEN <<Head(entries)>> ELSE <<>>)
         \o Under(dir, Tail(entries))

FilesUnder(dir) == Under(dir, Listing)

\* process_single_file: the input root it hands to the engine
InputRootFor(cfg, input_path) ==
    IF cfg.input_dir # <<>> THEN cfg.input_dir
    ELSE IF HasParent(input_path) THEN parent(input_path) ELSE <<>>

Init ==
    /\ fs = InitialFs
    /\ processor = NewProcessor
    /\ last = NoCall
    /\ registered = <<>>
    /\ calls = 0
    /\ cli \in [command : Commands, watch : BOOLEAN,
                input : {<<>>, InDir}, output : {OutDir}, localized : BOOLEAN]
    /\ cli.command = "enums" => ~cli.localized
    /\ config \in {[DefaultConfig EXCEPT !.input_dir = d, !.ignore = g] :
                     d \in {<<>>, InDir, CfgDir}, g \in {{}, {SubDir}}}
    /\ mainPc = "start"
    /\ exitCode = -1
    /\ todo = <<>>
    /\ watcherPc = "none"
    /\ pending = {}
    /\ rawQueue = <<>>
    /\ eventQueue = <<>>
    /\ current = <<>>
    /\ emitted = <<>>
    /\ rebuilt = <<>>
    /\ ioFailed = FALSE
    /\ RendererIdle

Running == mainPc \notin {"exited", "panicked"}

\* main up to the first process_single_file call: the directories are
\* resolved (expect), the watcher task is spawned, the processor is created
Start ==
    /\ mainPc = "start"
    /\ IF input_dir = <<>> \/ output_dir = <<>>
       THEN /\ mainPc' = "panicked"
            /\ exitCode' = 101
            /\ UNCHANGED <<watcherPc, todo>>
       ELSE /\ mainPc' = IF is_dir(input_dir) THEN "walk" ELSE "single"
            /\ todo' = IF is_dir(input_dir) THEN FilesUnder(input_dir) ELSE <<>>
            /\ watcherPc' = IF cli.watch THEN "spawned" ELSE "none"
            /\ UNCHANGED exitCode
    /\ UNCHANGED <<fs, processor, last, registered, calls, cli, config, pending,
                   rawQueue, eventQueue, current, emitted, rebuilt, ioFailed,
                   rendererVars>>

\* the initial process_single_file call returns res: one-shot mode exits,
\* watch mode prints the error and enters the consumer loop
InitialRunEnds(res) ==
    /\ mainPc' = IF cli.watch THEN "loop" ELSE "exited"
    /\ exitCode' = IF cli.watch THEN -1 ELSE IF res = "err" THEN 1 ELSE 0
    /\ todo' = <<>>

\* process_single_file on a path that is no directory
ProcessSingle(fault) ==
    /\ mainPc = "single"
    /\ LET r == process_file(processor, fs, input_dir,
                             InputRootFor(ArmConfig, input_dir), output_dir,
                             ArmConfig, fault)
       IN  /\ processor' = r.p
           /\ fs' = r.fs
           /\ last' = CallRecord(r, input_dir, fault, "initial")
           /\ registered' = Register(registered, input_dir, r.written)
           /\ ioFailed' = (ioFailed \/ Met(r, input_dir, fault) # {})
           /\ InitialRunEnds(r.result)
    /\ UNCHANGED <<calls, cli, config, watcherPc, pending, rawQueue, eventQueue,
                   current, emitted, rebuilt, rendererVars>>

\* process_directory: one entry of the walk
WalkEntry(path, fault) ==
    /\ mainPc = "walk"
    /\ todo # <<>>
    /\ path = Head(todo)
    /\ IF Accepted(config, path)
       THEN LET r == process_file(processor, fs, path,
                                  InputRootFor(ArmConfig, input_dir), output_dir,
                                  ArmConfig, fault)
            IN  /\ processor' = r.p
                /\ fs' = r.fs
                /\ last' = CallRecord(r, path, fault, "initial")
                /\ registered' = Register(registered, path, r.written)
                /\ ioFailed' = (ioFailed \/ Met(r, path, fault) # {})
                /\ IF r.result = "err"
                   THEN InitialRunEnds("err")
                   ELSE /\ todo' = Tail(todo)
                        /\ UNCHANGED <<mainPc, exitCode>>
       ELSE /\ fault = "none"
            /\ todo' = Tail(todo)
            /\ UNCHANGED <<fs, processor, last, registered, ioFailed, mainPc,
                           exitCode>>
    /\ UNCHANGED <<calls, cli, config, watcherPc, pending, rawQueue, eventQueue,
                   current, emitted, rebuilt, rendererVars>>

\* process_directory: fs::read_dir or one of its entries fails
WalkListingFails ==
    /\ mainPc = "walk"
    /\ todo # <<>>
    /\ ioFailed' = TRUE
    /\ InitialRunEnds("err")
    /\ UNCHANGED <<fs, processor, last, registered, calls, cli, config,
                   watcherPc, pending, rawQueue, eventQueue, current, emitted,
                   rebuilt, rendererVars>>

\* process_directory returns Ok
WalkDone ==
    /\ mainPc = "walk"
    /\ todo = <<>>
    /\ InitialRunEnds("ok")
    /\ UNCHANGED <<fs, processor, last, registered, calls, cli, config,
                   watcherPc, pending, rawQueue, eventQueue, current, emitted,
                   rebuilt, ioFailed, rendererVars>>

-----------------------------------------------------------------------------
(* Watch mode: the debouncer, watch_directory and the consumer loop of main *)

\* a channel that hands the newest message out first
send_Lifo(queue, msg) == <<msg>> \o queue

\* mpsc::Sender::send on an unbounded channel
send(queue, msg) == Append(queue, msg)

Perms(S) == {s \in [1..Cardinality(S) -> S] : Range(s) = S}

\* the paths of a queue that pass watch_directory's filter, in order
RECURSIVE Filter(_, _)
Filter(cfg, queue) ==
    IF queue = <<>> THEN <<>>
    ELSE (IF Accepted(cfg, Head(queue)) THEN <<Head(queue)>> ELSE <<>>)
         \o Filter(cfg, Tail(queue))

RECURSIVE SendAll(_, _)
SendAll(queue, msgs) ==
    IF msgs = <<>> THEN queue
    ELSE SendAll(send(queue, Head(msgs)), Tail(msgs))

\* new_debouncer and watcher().watch(..) succeed: the task enters its loop
WatcherStarts ==
    /\ watcherPc = "spawned"
    /\ Running
    /\ is_dir(input_dir)
    /\ watcherPc' = "watching"
    /\ UNCHANGED <<fs, processor, last, registered, calls, cli, config, mainPc,
                   exitCode, todo, pending, rawQueue, eventQueue, current,
                   emitted, rebuilt, ioFailed, rendererVars>>

\* new_debouncer or watch(..) fails: watch_directory returns Err, the task
\* prints "Watch error" and ends, dropping its Sender
WatcherFails ==
    /\ watcherPc = "spawned"
    /\ Running
    /\ watcherPc' = "failed"
    /\ UNCHANGED <<fs, processor, last, registered, calls, cli, config, mainPc,
                   exitCode, todo, pending, rawQueue, eventQueue, current,
                   emitted, rebuilt, ioFailed, rendererVars>>

\* the contents a save may leave in a file: the same text (a touch), or for
\* X.cs the text with its enum removed
SavedContents(path) ==
    IF path = FileX THEN {fs.files[path], NoEnum} ELSE {fs.files[path]}

\* the user saves an input file; a running watcher notes the path
SaveFile(path, content) ==
    /\ Running
    /\ mainPc # "start"
    /\ watcherPc = "watching" =>
         Len(emitted) + Cardinality(pending \cup {path}) <= MaxEvents
    /\ fs' = [fs EXCEPT !.files[path] = content]
    /\ pending' = IF watcherPc = "watching" THEN pending \cup {path} ELSE pending
    /\ UNCHANGED <<processor, last, registered, calls, cli, config, mainPc, exitCode,
                   todo, watcherPc, rawQueue, eventQueue, current, emitted,
                   rebuilt, ioFailed, rendererVars>>

\* the debouncer's callback: every event of the batch is sent, in batch order
DebounceFire(batch) ==
    /\ watcherPc = "watching"
    /\ Running
    /\ pending # {}
    /\ rawQueue' = SendAll(rawQueue, batch)
    /\ emitted' = emitted \o batch
    /\ pending' = {}
    /\ UNCHANGED <<fs, processor, last, registered, calls, cli, config, mainPc,
                   exitCode, todo, watcherPc, eventQueue, current, rebuilt,
                   ioFailed, rendererVars>>

\* one iteration of watch_directory's loop
Forward ==
    /\ watcherPc = "watching"
    /\ Running
    /\ rawQueue # <<>>
    /\ rawQueue' = Tail(rawQueue)
    /\ eventQueue' = IF Accepted(config, Head(rawQueue))
                     THEN send(eventQueue, Head(rawQueue))
                     ELSE eventQueue
    /\ UNCHANGED <<fs, processor, last, registered, calls, cli, config, mainPc,
                   exitCode, todo, watcherPc, pending, current, emitted,
                   rebuilt, ioFailed, rendererVars>>

\* main's loop: rx.recv() returns a path
Receive ==
    /\ mainPc = "loop"
    /\ eventQueue # <<>>
    /\ current' = Head(eventQueue)
    /\ eventQueue' = Tail(eventQueue)
    /\ mainPc' = "rebuilding"
    /\ UNCHANGED <<fs, processor, last, registered, calls, cli, config,
                   exitCode, todo, watcherPc, pending, rawQueue, emitted,
                   rebuilt, ioFailed, rendererVars>>

\* a consumer loop that treats a failed rebuild as the one-shot arm does
AfterRebuild_ExitOnError(res) == IF res = "err" THEN "exited" ELSE "loop"

\* where main goes after a rebuild returned res: both arms of the if let
\* fall through to the next iteration
AfterRebuild(res) == "loop"

\* main's loop: a fresh FileProcessor, process_single_file on the received
\* path, the error or the summary printed
Rebuild(fault) ==
    /\ mainPc = "rebuilding"
    /\ LET r == process_file(NewProcessor, fs, current,
                             InputRootFor(ArmConfig, current), output_dir,
                             ArmConfig, fault)
       IN  /\ fs' = r.fs
           /\ last' = CallRecord(r, current, fault, "watch")
           /\ registered' = Register(registered, current, r.written)
           /\ ioFailed' = (ioFailed \/ Met(r, current, fault) # {})
           /\ rebuilt' = Append(rebuilt, [path |-> current, result |-> r.result])
           /\ mainPc' = AfterRebuild(r.result)
           /\ exitCode' = IF AfterRebuild(r.result) = "exited" THEN 1 ELSE exitCode
    /\ current' = <<>>
    /\ UNCHANGED <<processor, calls, cli, config, todo, watcherPc, pending,
                   rawQueue, eventQueue, emitted, rendererVars>>

\* main's loop when the watch task has ended: every Sender is dropped, recv
\* returns Err at once and the loop goes round
RecvDisconnected ==
    /\ mainPc = "loop"
    /\ watcherPc = "failed"
    /\ eventQueue = <<>>
    /\ UNCHANGED vars

Next ==
    \/ Start
    \/ \E fault \in Faults : ProcessSingle(fault)
    \/ \E path \in InputFiles, fault \in Faults : WalkEntry(path, fault)
    \/ WalkListingFails
    \/ WalkDone
    \/ WatcherStarts
    \/ WatcherFails
    \/ \E path \in InputFiles : \E content \in SavedContents(path) : SaveFile(path, content)
    \/ \E batch \in Perms(pending) : DebounceFire(batch)
    \/ Forward
    \/ Receive
    \/ \E fault \in Faults : Rebuild(fault)
    \/ RecvDisconnected

Spec == Init /\ [][Next]_vars

\* the schemas command started with --watch
WatchInit == Init /\ cli.watch /\ cli.command = "schemas" /\ ~cli.localized

WatchSpec == WatchInit /\ [][Next]_vars

-----------------------------------------------------------------------------
(* Properties of the engine and of the command *)

\* the step is a process_file call on the engine's processor: every call
\* counts the file as processed or as skipped
IsCall == processor'.stats # processor.stats

\* where the outputs of an input belong: the input's place under the input
\* directory, repeated under the output directory
MirrorPath(input, inRoot, outRoot, suffix) ==
    outRoot \o SubSeq(input, Len(inRoot) + 1, Len(input) - 1)
            \o <<<<file_name(input)[1], suffix>>>>

ExpectedOutputs(input, content, inRoot, outRoot) ==
    (IF content.enums > 0 THEN {MirrorPath(input, inRoot, outRoot, ".ts")} ELSE {})
    \cup
    (IF content.dtos > 0 THEN {MirrorPath(input, inRoot, outRoot, ".schema.ts")} ELSE {})

\* C1: incremental skip.  On one FileProcessor, the first call on a readable
\* input counts it as processed and, when it returns Ok, leaves exactly the
\* input's outputs written; a second call on the same input with the same
\* content counts one skip and changes nothing else: no write, no delete.
C1_IncrementalSkip ==
    [][ /\ ( /\ IsCall
             /\ last'.input \notin DOMAIN processor.file_hashes
             /\ last'.fault # "read" )
          => /\ processor'.stats.files_processed = processor.stats.files_processed + 1
             /\ processor'.stats.files_skipped = processor.stats.files_skipped
             /\ last'.result = "ok" =>
                  /\ last'.written = ExpectedOutputs(last'.input, last'.content, InDir, OutDir)
                  /\ last'.written \subseteq DOMAIN fs'.files
        /\ ( /\ IsCall
             /\ last.result # "none"
             /\ last.fault # "read"
             /\ last'.input = last.input
             /\ last'.content = last.content )
          => /\ last'.result = "skipped"
             /\ processor'.stats =
                  [processor.stats EXCEPT !.files_skipped = @ + 1]
             /\ last'.written = {}
             /\ last'.removed = {}
             /\ fs' = fs
      ]_vars

\* C1 witness: two calls on one input, the first wrote its outputs, the
\* second was skipped with the input readable
C1_Witness ==
    /\ last.result = "skipped"
    /\ last.fault = "none"
    /\ processor.stats.files_processed = 1
    /\ processor.stats.files_skipped = 1
    /\ processor.stats.enums_generated + processor.stats.schemas_generated > 0
    /\ last.input \in DOMAIN processor.file_mapping

\* C2: cleanup before rewrite.  After a rebuild of an input that returned Ok,
\* no file registered earlier as an output of that input, and not written by
\* this rebuild, is on disk; in one-shot mode and in watch mode.
C2_CleanupBeforeRewrite ==
    last.result = "ok" =>
        \A p \in last.prior \ last.written : p \notin DOMAIN fs.files

\* C3: the outputs mirror the input tree under the output directory: an
\* enum of I/sub/X.cs is written to O/sub/X.ts, a DTO to O/sub/X.schema.ts,
\* in the initial walk and in every watch rebuild, and nothing is written
\* outside O.
C3_MirrorTree ==
    (last.result # "none" /\ is_dir(input_dir)) =>
        \A p \in last.written :
            /\ starts_with(p, output_dir)
            /\ p = MirrorPath(last.input, input_dir, output_dir,
                              IF fs.files[p].kind = "Enum" THEN ".ts" ELSE ".schema.ts")

\* C4: watch rebuild.  When a watch rebuild of a file the initial run
\* produced outputs for returns Ok, each of those outputs is either
\* overwritten from the new text or gone from the disk.
C4_WatchRebuild ==
    (last.mode = "watch" /\ last.result = "ok") =>
        \A p \in Range(get_outputs_for_input(processor, last.input)) :
            IF p \in last.written
            THEN fs.files[p].enums = last.content.enums
                 /\ fs.files[p].dtos = last.content.dtos
            ELSE p \notin DOMAIN fs.files

Paths(history) == [i \in DOMAIN history |-> history[i].path]

InFlight == IF current = <<>> THEN <<>> ELSE <<current>>

\* C5: watch-mode rebuilds are serialized and in order.  At most one rebuild
\* is under way, and the rebuilds made, the one under way and the paths still
\* in the two channels are, in this order, exactly the accepted paths in the
\* order the debouncer sent them: none dropped, none reordered.
C5_SerializedInOrder ==
    /\ (mainPc = "rebuilding") <=> (current # <<>>)
    /\ Paths(rebuilt) \o InFlight \o eventQueue \o Filter(config, rawQueue)
         = Filter(config, emitted)

\* C5 witness: two different paths were rebuilt one after the other
C5_Witness ==
    /\ Len(rebuilt) >= 2
    /\ rebuilt[1].path # rebuilt[2].path
    /\ mainPc = "loop"

\* C6: in one-shot mode exit code 0 means that no read, write or listing
\* failure was met.
C6_OneShotFailuresFatal ==
    (~cli.watch /\ mainPc = "exited" /\ exitCode = 0) => ~ioFailed

\* C7: watch mode survives per-file errors.  Once a rebuild has returned an
\* error the process has not exited and main is still in its consumer loop.
C7_WatchSurvivesErrors ==
    (cli.watch /\ \E i \in DOMAIN rebuilt : rebuilt[i].result = "err") =>
        /\ exitCode = -1
        /\ mainPc \in {"loop", "rebuilding"}

\* C7 witness: a rebuild failed and a later event was rebuilt
C7_Witness ==
    \E i, j \in DOMAIN rebuilt :
        /\ i < j
        /\ rebuilt[i].result = "err"
        /\ rebuilt[j].result = "ok"

\* C8: a watcher setup failure is fatal: main does not sit in the watch-mode
\* consumer loop once the watch task has failed.
C8_WatcherFailureFatal ==
    watcherPc = "failed" => mainPc \notin {"loop", "rebuilding"}

\* C9: under the enums subcommand no .schema.ts file is ever written.
C9_EnumsOnlyTs ==
    cli.command = "enums" =>
        \A p \in DOMAIN fs.files :
            file_name(p)[Len(file_name(p))] # ".schema.ts"

-----------------------------------------------------------------------------
(* The Zod schema renderer: CSharpType, ValidationRule, CSharpDto *)

\* deepest nesting of Array / Nullable / Dictionary in a property type
MaxDepth == 1

\* most validation rules on one property
MaxRules == 1

Prim(tag) == [tag |-> tag]
Array(inner) == [tag |-> "Array", inner |-> inner]
Nullable(inner) == [tag |-> "Nullable", inner |-> inner]
Dictionary(key, value) == [tag |-> "Dictionary", key |-> key, value |-> value]
Custom(name) == [tag |-> "Custom", name |-> name]

LeafTypes ==
    {Prim(t) : t \in {"String", "Int", "Double", "Decimal", "Bool",
                      "DateTime", "Guid"}}
    \cup {Custom("Address")}

KeyTypes == {Prim("String"), Prim("Int")}

RECURSIVE TypesUpTo(_)
TypesUpTo(depth) ==
    IF depth = 0 THEN LeafTypes
    ELSE LET inner == TypesUpTo(depth - 1)
         IN  LeafTypes
             \cup {Array(t) : t \in inner}
             \cup {Nullable(t) : t \in inner}
             \cup {Dictionary(k, v) : k \in KeyTypes, v \in inner}

\* to_zod_type that closes every expression as for a create DTO
RECURSIVE to_zod_type_AlwaysRequired(_, _, _)
to_zod_type_AlwaysRequired(t, localized, is_update_dto) ==
    LET base_type ==
          CASE t.tag = "String" -> "z.string()"
            [] t.tag = "Int" -> "z.number().int()"
            [] t.tag \in {"Double", "Decimal"} -> "z.number()"
            [] t.tag = "Bool" -> "z.boolean()"
            [] t.tag = "Guid" -> "z.string().uuid()"
            [] t.tag = "DateTime" ->
                 IF localized THEN "z.date().or(z.string().datetime())"
                 ELSE "z.string().datetime()"
            [] t.tag = "Array" ->
                 "z.array("
                   \o to_zod_type_AlwaysRequired(t.inner, localized, is_update_dto)
                   \o ")"
            [] t.tag = "Nullable" ->
                 to_zod_type_AlwaysRequired(t.inner, localized, is_update_dto)
                   \o ".nullable()"
            [] t.tag = "Dictionary" ->
                 "z.record("
                   \o to_zod_type_AlwaysRequired(t.key, localized, is_update_dto)
                   \o ", "
                   \o to_zod_type_AlwaysRequired(t.value, localized, is_update_dto)
                   \o ")"
            [] t.tag = "Custom" -> t.name \o "Schema"
    IN  base_type \o ".required()"

RECURSIVE to_zod_type(_, _, _)
to_zod_type(t, localized, is_update_dto) ==
    LET base_type ==
          CASE t.tag = "String" -> "z.string()"
            [] t.tag = "Int" -> "z.number().int()"
            [] t.tag \in {"Double", "Decimal"} -> "z.number()"
            [] t.tag = "Bool" -> "z.boolean()"
            [] t.tag = "Guid" -> "z.string().uuid()"
            [] t.tag = "DateTime" ->
                 IF localized THEN "z.date().or(z.string().datetime())"
                 ELSE "z.string().datetime()"
            [] t.tag = "Array" ->
                 "z.array(" \o to_zod_type(t.inner, localized, is_update_dto) \o ")"
            [] t.tag = "Nullable" ->
                 to_zod_type(t.inner, localized, is_update_dto) \o ".nullable()"
            [] t.tag = "Dictionary" ->
                 "z.record(" \o to_zod_type(t.key, localized, is_update_dto)
                   \o ", " \o to_zod_type(t.value, localized, is_update_dto) \o ")"
            [] t.tag = "Custom" -> t.name \o "Schema"
    IN  IF is_update_dto THEN base_type \o ".optional()"
        ELSE base_type \o ".required()"

\* Option<String>
None == [some |-> FALSE]
Some(v) == [some |-> TRUE, value |-> v]

unwrap_or(opt, default) == IF opt.some THEN opt.value ELSE default

Rule(rule_type, parameters, error_message) ==
    [rule_type |-> rule_type, parameters |-> parameters,
     error_message |-> error_message]

NoParameters == [k \in {} |-> ""]

Rules ==
    { Rule("Required", NoParameters, None),
      Rule("Range", [Minimum |-> "1", Maximum |-> "10"], None),
      Rule("Range", [Minimum |-> "1"], None),
      Rule("StringLength", NoParameters, None),
      Rule("StringLength", [MinimumLength |-> "2", MaximumLength |-> "50"], None),
      Rule("EmailAddress", NoParameters, Some("'Enter an email'")),
      Rule("Phone", NoParameters, None),
      Rule("RegularExpression", [pattern |-> "^[a-z]+$"], None),
      Rule("RegularExpression", NoParameters, None),
      Rule("CreditCard", NoParameters, None) }

RECURSIVE RuleLists(_)
RuleLists(n) ==
    IF n = 0 THEN {<<>>}
    ELSE LET shorter == RuleLists(n - 1)
         IN  shorter \cup {Append(l, r) : l \in shorter, r \in Rules}

Has(parameters, key) == key \in DOMAIN parameters

\* ValidationRule::to_zod_validation: Option<String>
to_zod_validation(rule, prop_name, localized) ==
    LET msg(slot, default) ==
          IF localized THEN "t('" \o prop_name \o "." \o slot \o "')"
          ELSE unwrap_or(rule.error_message, default)
        P == rule.parameters
    IN  CASE rule.rule_type = "Required" -> Some(".required()")
          [] rule.rule_type = "Range" ->
               IF ~Has(P, "Minimum") \/ ~Has(P, "Maximum") THEN None
               ELSE LET m == msg("range", "Value must be between " \o P.Minimum
                                           \o " and " \o P.Maximum)
                    IN  Some(".min(" \o P.Minimum \o ", { message: " \o m \o " })"
                             \o ".max(" \o P.Maximum \o ", { message: " \o m \o " })")
          [] rule.rule_type = "StringLength" ->
               Some((IF Has(P, "MinimumLength")
                     THEN ".min(" \o P.MinimumLength \o ", { message: "
                          \o msg("minLength", "Minimum length is " \o P.MinimumLength)
                          \o " })"
                     ELSE "")
                    \o
                    (IF Has(P, "MaximumLength")
                     THEN ".max(" \o P.MaximumLength \o ", { message: "
                          \o msg("maxLength", "Maximum length is " \o P.MaximumLength)
                          \o " })"
                     ELSE ""))
          [] rule.rule_type = "EmailAddress" ->
               Some(".email({ message: " \o msg("email", "Invalid email address") \o " })")
          [] rule.rule_type = "Phone" ->
               Some(".regex(/^\\+?[1-9]\\d{1,14}$/, { message: "
                    \o msg("phone", "Invalid phone number") \o " })")
          [] rule.rule_type = "RegularExpression" ->
               IF Has(P, "pattern")
               THEN Some(".regex(new RegExp('" \o P.pattern \o "'), { message: "
                         \o msg("pattern", "Invalid format") \o " })")
               ELSE None
          [] OTHER -> None

\* CSharpDto::is_update_dto
is_update_dto(name) == Len(name) >= 6 /\ SubSeq(name, 1, 6) = "Update"

\* to_zod_schema: what the loop over prop.validations appends to schema_line
RECURSIVE Validations(_, _, _)
Validations(validations, prop_name, localized) ==
    IF validations = <<>> THEN ""
    ELSE LET validation == Head(validations)
             code == to_zod_validation(validation, prop_name, localized)
         IN  (IF validation.rule_type # "Required" /\ code.some
              THEN code.value ELSE "")
             \o Validations(Tail(validations), prop_name, localized)

\* to_zod_schema: the documentation line and the schema_line of one property
FieldLine(prop, localized, is_update) ==
    [doc |-> IF prop.documentation.some
             THEN Some("    /** " \o prop.documentation.value \o " */")
             ELSE None,
     line |-> "    " \o prop.name \o ": "
              \o to_zod_type(prop.type_name, localized, is_update)
              \o Validations(prop.validations, prop.name, localized)]

\* to_zod_schema: the properties of the z.object, in order
to_zod_schema(d, cfg) ==
    [i \in DOMAIN d.properties |->
        FieldLine(d.properties[i], cfg.localized, is_update_dto(d.name))]

Property(name, type_name, validations, documentation) ==
    [name |-> name, type_name |-> type_name, validations |-> validations,
     documentation |-> documentation]

IdProperty == Property("Id", Prim("Guid"), <<>>, Some("Identifier"))

DtoNames == {"CreateUser", "UpdateUser", "UserUpdate"}

Dtos ==
    {[name |-> n,
      properties |-> <<IdProperty, Property("Value", t, v, None)>>] :
        n \in DtoNames, t \in TypesUpTo(MaxDepth), v \in RuleLists(MaxRules)}

RenderInit ==
    /\ dto \in Dtos
    /\ schema = <<>>
    /\ declaration = NoDecl
    /\ parsed = "no"
    /\ config \in {[DefaultConfig EXCEPT !.localized = l] : l \in BOOLEAN}
    /\ fs = InitialFs
    /\ processor = NewProcessor
    /\ last = NoCall
    /\ registered = <<>>
    /\ calls = 0
    /\ cli = NoCli
    /\ mainPc = "none"
    /\ exitCode = -1
    /\ todo = <<>>
    /\ watcherPc = "none"
    /\ pending = {}
    /\ rawQueue = <<>>
    /\ eventQueue = <<>>
    /\ current = <<>>
    /\ emitted = <<>>
    /\ rebuilt = <<>>
    /\ ioFailed = FALSE

\* dto.to_zod_schema(&config)
Render ==
    /\ schema = <<>>
    /\ schema' = to_zod_schema(dto, config)
    /\ UNCHANGED <<fs, processor, last, registered, calls, cli, config, mainPc,
                   exitCode, todo, watcherPc, pending, rawQueue, eventQueue,
                   current, emitted, rebuilt, ioFailed, dto, declaration,
                   parsed>>

RenderNext == Render

RenderSpec == RenderInit /\ [][RenderNext]_vars

EndsWith(text, suffix) ==
    /\ Len(text) >= Len(suffix)
    /\ SubSeq(text, Len(text) - Len(suffix) + 1, Len(text)) = suffix

Suffix(d) == IF is_update_dto(d.name) THEN ".optional()" ELSE ".required()"

\* C10 as stated: every rendered field expression ends with .required() for
\* a DTO whose name does not start with "Update" and with .optional() for one
\* whose name does, whatever the property's validation rules.
C10_SuffixWithAnyRules ==
    \A i \in DOMAIN schema : EndsWith(schema[i].line, Suffix(dto))

\* C10 amended: every rendered field expression is the type expression
\* closed by .required() / .optional() as the DTO name decides, followed by
\* the fragments of the property's validation rules; so it ends with that
\* modifier whenever no rule of the property renders a fragment, as for
\* every parsed property.
C10_SuffixBeforeRules ==
    \A i \in DOMAIN schema :
        LET prop == dto.properties[i]
            fragments == Validations(prop.validations, prop.name, config.localized)
        IN  /\ EndsWith(schema[i].line, Suffix(dto) \o fragments)
            /\ fragments = "" => EndsWith(schema[i].line, Suffix(dto))

\* C10 witness: an update DTO and a property with a rule that renders
\* nothing have been rendered
C10_Witness ==
    /\ schema # <<>>
    /\ is_update_dto(dto.name)
    /\ dto.properties[2].validations # <<>>
    /\ EndsWith(schema[2].line, ".optional()")

\* the expression to_zod_type closes with the modifier
Unclosed(text, modifier) == SubSeq(text, 1, Len(text) - Len(modifier))

\* C11: Nullable composition.  The field expression rendered for a property
\* of type Nullable(T) is the expression of T without its modifier, followed
\* by .nullable(), followed by the .required() / .optional() modifier once:
\* int? in a create DTO renders as z.number().int().nullable().required().
C11_NullableComposition ==
    \A i \in DOMAIN schema :
        LET prop == dto.properties[i]
            modifier == Suffix(dto)
            inner == to_zod_type(prop.type_name.inner, config.localized,
                                 is_update_dto(dto.name))
        IN  (prop.type_name.tag = "Nullable" /\ prop.validations = <<>>) =>
                schema[i].line = "    " \o prop.name \o ": "
                                 \o Unclosed(inner, modifier)
                                 \o ".nullable()" \o modifier

-----------------------------------------------------------------------------
(* The Type Lexicon (CSharpType::from_string) and CSharpDto::parse *)

\* most Nullable marks at the end of a type token
MaxMarks == 2

\* the outcome of a call that panics (unwrap on None, slice out of order)
Panic == [tag |-> "panic"]

Panicked(t) == t.tag = "panic"

\* str::find: the index (from 1) of the first occurrence, 0 for None
RECURSIVE find_from(_, _, _)
find_from(s, ch, i) ==
    IF i > Len(s) THEN 0
    ELSE IF SubSeq(s, i, i) = ch THEN i
    ELSE find_from(s, ch, i + 1)

find(s, ch) == find_from(s, ch, 1)

ends_with(s, ch) == Len(s) >= 1 /\ SubSeq(s, Len(s), Len(s)) = ch

\* str::trim, for the blank
RECURSIVE trim(_)
trim(s) ==
    IF Len(s) = 0 THEN s
    ELSE IF SubSeq(s, 1, 1) = " " THEN trim(SubSeq(s, 2, Len(s)))
    ELSE IF SubSeq(s, Len(s), Len(s)) = " " THEN trim(SubSeq(s, 1, Len(s) - 1))
    ELSE s

\* str::split on one character: never empty, the pieces in order
RECURSIVE split(_, _)
split(s, ch) ==
    LET at == find(s, ch)
    IN  IF at = 0 THEN <<s>>
        ELSE <<SubSeq(s, 1, at - 1)>> \o split(SubSeq(s, at + 1, Len(s)), ch)

\* s[s.find('<').unwrap() + 1..s.find('>').unwrap()]: [ok, value]
Between(s) ==
    LET lt == find(s, "<")
        gt == find(s, ">")
    IN  IF lt = 0 \/ gt = 0 \/ gt < lt THEN [ok |-> FALSE, value |-> ""]
        ELSE [ok |-> TRUE, value |-> SubSeq(s, lt + 1, gt - 1)]

\* CSharpType::from_string: the arms of the match in the order of the source
RECURSIVE from_string(_)
from_string(type_str) ==
    CASE type_str = "string" -> Prim("String")
      [] type_str \in {"int", "Int32"} -> Prim("Int")
      [] type_str \in {"double", "Double"} -> Prim("Double")
      [] type_str \in {"decimal", "Decimal"} -> Prim("Decimal")
      [] type_str \in {"bool", "Boolean"} -> Prim("Bool")
      [] type_str = "DateTime" -> Prim("DateTime")
      [] type_str = "Guid" -> Prim("Guid")
      [] OTHER ->
           IF starts_with(type_str, "List<") \/ starts_with(type_str, "IEnumerable<")
           THEN LET arg == Between(type_str)
                IN  IF ~arg.ok THEN Panic
                    ELSE LET inner == from_string(trim(arg.value))
                         IN  IF Panicked(inner) THEN Panic ELSE Array(inner)
           ELSE IF starts_with(type_str, "Dictionary<")
           THEN LET arg == Between(type_str)
                IN  IF ~arg.ok THEN Panic
                    ELSE LET parts == split(arg.value, ",")
                         IN  IF Len(parts) < 2 THEN Panic
                             ELSE LET key == from_string(trim(parts[1]))
                                      value == from_string(trim(parts[2]))
                                  IN  IF Panicked(key) \/ Panicked(value)
                                      THEN Panic
                                      ELSE Dictionary(key, value)
           ELSE IF ends_with(type_str, "?")
           THEN LET inner == from_string(SubSeq(type_str, 1, Len(type_str) - 1))
                IN  IF Panicked(inner) THEN Panic ELSE Nullable(inner)
           ELSE Custom(type_str)

\* PROPERTY_REGEX on one piece of the parameter list, whose words are made of
\* the characters of the type class: the last word is the name, the word
\* before it the type; a piece of fewer than two words is not matched
Capture(prop) ==
    LET words == SelectSeq(split(trim(prop), " "), LAMBDA w : w # "")
        n == Len(words)
    IN  IF n < 2 THEN None
        ELSE Some([type |-> words[n - 1], name |-> words[n]])

\* the captures of a parameter list, in order
RECURSIVE Captures(_)
Captures(props) ==
    IF props = <<>> THEN <<>>
    ELSE LET cap == Capture(Head(props))
         IN  (IF cap.some THEN <<cap.value>> ELSE <<>>) \o Captures(Tail(props))

\* CSharpDto::parse on the text of one record: [panicked, dto]
parse(d) ==
    LET caps == Captures(split(d.props, ","))
        properties ==
          [i \in DOMAIN caps |->
             Property(caps[i].name, from_string(caps[i].type), <<>>, None)]
    IN  IF \E i \in DOMAIN properties : Panicked(properties[i].type_name)
        THEN [panicked |-> TRUE, dto |-> NoDto]
        ELSE [panicked |-> FALSE,
              dto |-> [name |-> d.name, properties |-> properties]]

Heads == {"", "List<", "IEnumerable<", "Dictionary<"}

Cores == {"int", "string", "Guid", "Address", "List<int>"}

Closers == {"", ">"}

RECURSIVE Marks(_)
Marks(n) == IF n = 0 THEN {""} ELSE Marks(n - 1) \cup {m \o "?" : m \in Marks(n - 1)}

\* type tokens of the class [a-zA-Z0-9_<>?\[\]\.]+
Tokens ==
    {h \o c \o e \o m : h \in Heads, c \in Cores, e \in Closers, m \in Marks(MaxMarks)}

\* the parameter lists of the records parsed
ParameterLists ==
    {t \o " Value" : t \in Tokens}
    \cup {"Guid Id, " \o t \o " Value" : t \in Tokens}
    \cup {"Dictionary<string, int> Map", "Guid Id,", "[Required] string Name"}

ParseInit ==
    /\ declaration \in [name : {"CreateUser", "UpdateUser"}, props : ParameterLists]
    /\ parsed = "no"
    /\ dto = NoDto
    /\ schema = <<>>
    /\ fs = InitialFs
    /\ processor = NewProcessor
    /\ last = NoCall
    /\ registered = <<>>
    /\ calls = 0
    /\ DriverIdle

\* CSharpDto::parse(&content)
Parse ==
    /\ parsed = "no"
    /\ LET r == parse(declaration)
       IN  /\ parsed' = IF r.panicked THEN "panic" ELSE "ok"
           /\ dto' = r.dto
    /\ UNCHANGED <<fs, processor, last, registered, calls, driverVars, schema,
                   declaration>>

ParseNext == Parse

ParseSpec == ParseInit /\ [][ParseNext]_vars

\* the type tokens CSharpDto::parse captured from the declaration, in order
Captured == Captures(split(declaration.props, ","))

\* C12: the rule for a trailing ? is applied first: every captured type
\* token that ends with ? (and whose prefix the lexicon accepts) maps to
\* Nullable(lexicon(prefix)); List<int>? maps to Nullable(Array(Int)).
C12_NullableRuleFirst ==
    parsed # "no" =>
        \A i \in DOMAIN Captured :
            LET token == Captured[i].type
                prefix == SubSeq(token, 1, Len(token) - 1)
            IN  (ends_with(token, "?") /\ ~Panicked(from_string(prefix))) =>
                    /\ parsed = "ok"
                    /\ dto.properties[i].type_name = Nullable(from_string(prefix))

\* C13: the parser never throws: CSharpDto::parse returns a list for every
\* declaration, the lexicon mapping every captured type token to a type.
C13_ParserNeverPanics == parsed # "panic"

RECURSIVE NullableInNullable(_)
NullableInNullable(t) ==
    CASE t.tag = "Nullable" ->
           t.inner.tag = "Nullable" \/ NullableInNullable(t.inner)
      [] t.tag = "Array" -> NullableInNullable(t.inner)
      [] t.tag = "Dictionary" ->
           NullableInNullable(t.key) \/ NullableInNullable(t.value)
      [] OTHER -> FALSE

\* C14: in every type the lexicon produced for a parsed property, no Nullable
\* node has a Nullable node as its direct child.
C14_NullableNeverNests ==
    parsed = "ok" =>
        \A i \in DOMAIN dto.properties :
            ~NullableInNullable(dto.properties[i].type_name)

-----------------------------------------------------------------------------
(* Properties of the engine's bookkeeping *)

\* C16: the frame of a skip.  A process_file call that is skipped, because
\* the input cannot be read or because its hash is unchanged, leaves
\* file_hashes, file_mapping, files_processed, enums_generated,
\* schemas_generated and every file on disk as they were, and adds exactly
\* one to files_skipped.
C16_SkipFrame ==
    [][ (IsCall /\ last'.result = "skipped") =>
            /\ processor'.file_hashes = processor.file_hashes
            /\ processor'.file_mapping = processor.file_mapping
            /\ processor'.stats =
                 [processor.stats EXCEPT !.files_skipped = @ + 1]
            /\ fs' = fs
      ]_vars

\* C16 witness: an input that was rebuilt before could not be read, and the
\* call was skipped with its hash and its outputs still recorded
C16_Witness ==
    /\ last.result = "skipped"
    /\ last.fault = "read"
    /\ last.input \in DOMAIN processor.file_hashes
    /\ last.input \in DOMAIN processor.file_mapping
    /\ processor.stats.files_skipped = 1

\* C17: after a rebuild that returned Ok, file_mapping[I] lists exactly the
\* output paths that rebuild wrote: nothing from earlier rebuilds of I, and
\* no more entries than the rebuild made writes.
C17_MappingIsLastRebuild ==
    last.result = "ok" =>
        LET outputs == get_outputs_for_input(processor, last.input)
        IN  /\ Range(outputs) = last.written
            /\ Len(outputs) = last.content.enums + last.content.dtos

\* C18: a hash is recorded as up to date only for an input whose outputs
\* were written: when process_file on I has returned an I/O error, the next
\* call on I, with I readable and its content unchanged, is not skipped.
C18_FailedRebuildRetried ==
    [][ ( /\ IsCall
          /\ last.result = "err"
          /\ last'.input = last.input
          /\ last'.content = last.content
          /\ last'.fault # "read" )
        => last'.result # "skipped"
      ]_vars

-----------------------------------------------------------------------------
(* Properties of the file header *)

\* the header of a file written under the configuration the invocation
\* used: the directories of the command line, else of the configuration
\* file, the extensions, and the localized flag of either
EffectiveHeader(file_type) ==
    [file_type |-> file_type,
     input_dir |-> DirText(input_dir),
     output_dir |-> DirText(output_dir),
     extensions |-> config.extensions,
     localization |-> IF cli.localized \/ config.localized
                      THEN "enabled" ELSE "disabled"]

\* C15: the header of every generated file, enum and schema, echoes the
\* effective configuration of the invocation that wrote it: the input and
\* output directories actually used, the extensions and the effective
\* localized flag.
C15_HeaderEchoesEffectiveConfig ==
    \A p \in last.written :
        fs.files[p].header = EffectiveHeader(fs.files[p].kind)

====
